---- MODULE Spec2Model ----
(***************************************************************************)
(* The registry service of src/main.py: one shared vector collection, the  *)
(* REST handlers that read and write it, and the requests waiting for the  *)
(* event loop.                                                             *)
(*                                                                         *)
(* Every handler is an `async def` whose body has no await, so the event   *)
(* loop runs a handler to its end before it starts the next one.  The only *)
(* handler the model shows in several steps is reinitialize_registry       *)
(* (its clear step, then the rest); pc is its position and LoopIdle the    *)
(* event loop's exclusion.                                                 *)
(***************************************************************************)
EXTENDS Integers, Sequences, FiniteSets, TLC

VARIABLES
    coll,       \* registry_collection: a set of entries
    waiting,    \* requests received while a handler runs, not yet started
    pc,         \* position of the running reinitialize_registry handler
    resp,       \* the last response sent: [req, status, body]
    neMissing   \* whether the store's $ne filter matches entries lacking the key

vars == <<coll, waiting, pc, resp, neMissing>>

(***************************************************************************)
(* Bounds of the model.                                                    *)
(***************************************************************************)
MaxWaiting == 1

(***************************************************************************)
(* Metadata: a flat mapping, kept as a set of <<key, value>> pairs.  The   *)
(* empty set stands for "no metadata" (None): add_document stores None for *)
(* a missing or empty mapping.                                             *)
(***************************************************************************)
NoMetadata == {}

HasKey(m, k) == \E p \in m : p[1] = k

ValueOf(m, k) == (CHOOSE p \in m : p[1] = k)[2]

(***************************************************************************)
(* The embedding model: a deterministic map from text to a vector, here a  *)
(* point on a line; the store's distance is the squared L2 distance.       *)
(***************************************************************************)
encode(text) ==
    CASE text = "" -> 0
      [] text = "lab" -> 4
      [] text = "note" -> 4
      [] text = "Table: labs. lab results" -> 5
      [] text = "Table: labs. lab orders" -> 3
      [] text = "Table: patients. patient records" -> 1
      [] OTHER -> 9

Distance(a, b) == (a - b) * (a - b)

(***************************************************************************)
(* The document encoder and the canonical schema set (app/registry.py).    *)
(***************************************************************************)
CanonicalSchemas ==
    { [table_name |-> "patients", description |-> "patient records"] }

TableId(name) == "table_" \o name

create_document_from_schema(schema) ==
    "Table: " \o schema.table_name \o ". " \o schema.description

SchemaEntry(schema) ==
    [ id |-> TableId(schema.table_name),
      document |-> create_document_from_schema(schema),
      metadata |-> {<<"table_name", schema.table_name>>},
      embedding |-> encode(create_document_from_schema(schema)),
      origin |-> "registry" ]

CanonicalEntries == { SchemaEntry(s) : s \in CanonicalSchemas }

(***************************************************************************)
(* The vector collection's operations, as the handlers call them.          *)
(***************************************************************************)
Ids(c) == { e.id : e \in c }

CollectionCount(c) == Cardinality(c)

CollectionGet(c, ids) == { e \in c : e.id \in ids }

CollectionUpsert(c, e) == { x \in c : x.id # e.id } \cup {e}

\* Variant: add() that stores the entry beside one of the same id.
CollectionAdd_append(c, e) == c \cup {e}

\* add() of an id the collection already holds changes nothing.
CollectionAdd(c, e) == IF e.id \in Ids(c) THEN c ELSE c \cup {e}

CollectionDeleteIds(c, ids) == { e \in c : e.id \notin ids }

\* where={"table_name": {"$ne": ""}}
WhereTableNameNotEmpty(e, missing) ==
    IF HasKey(e.metadata, "table_name")
    THEN ValueOf(e.metadata, "table_name") # ""
    ELSE missing

CollectionDeleteWhere(c, missing) ==
    { e \in c : ~WhereTableNameNotEmpty(e, missing) }

\* query(query_embeddings, n_results): the n_results nearest entries, nearest
\* first; fewer when the collection holds fewer; ties in the store's order,
\* which the caller cannot predict.
Nearest(c, q) ==
    { e \in c : \A x \in c : Distance(e.embedding, q) <= Distance(x.embedding, q) }

RECURSIVE CollectionQuery(_, _, _)
CollectionQuery(c, q, n) ==
    IF n = 0 \/ c = {}
    THEN { <<>> }
    ELSE UNION { { <<e>> \o t : t \in CollectionQuery(c \ {e}, q, n - 1) }
                 : e \in Nearest(c, q) }

(***************************************************************************)
(* app/registry.py: initialize_registry and add_table_to_registry.  Each   *)
(* returns a success flag; a schema whose encode, embed or upsert fails is *)
(* not applied and the others stay applied.                                *)
(***************************************************************************)
MissingCanonical(c) ==
    { s \in CanonicalSchemas : TableId(s.table_name) \notin Ids(c) }

initialize_registry(c) ==
    { [ coll |-> c \cup { SchemaEntry(s) : s \in done },
        success |-> (done = MissingCanonical(c)) ]
      : done \in SUBSET MissingCanonical(c) }

\* Variant: the entry goes in under a generated id when the derived one is taken.
add_table_to_registry_append(c, schema) ==
    IF schema.table_name = ""
    THEN { [coll |-> c, success |-> FALSE] }
    ELSE { [coll |-> IF TableId(schema.table_name) \in Ids(c)
                     THEN c \cup { [SchemaEntry(schema) EXCEPT
                                      !.id = @ \o "_" \o ToString(Cardinality(c))] }
                     ELSE c \cup { SchemaEntry(schema) },
             success |-> TRUE],
           [coll |-> c, success |-> FALSE] }

add_table_to_registry(c, schema) ==
    IF schema.table_name = ""
    THEN { [coll |-> c, success |-> FALSE] }
    ELSE { [coll |-> CollectionUpsert(c, SchemaEntry(schema)), success |-> TRUE],
           [coll |-> c, success |-> FALSE] }

(***************************************************************************)
(* Requests.                                                               *)
(***************************************************************************)
KMin == 1
KMax == 20

RequestSchemas ==
    { [table_name |-> "labs", description |-> "lab results"],
      [table_name |-> "labs", description |-> "lab orders"],
      [table_name |-> "", description |-> "lab results"] }

TableNames == { "labs", "patients" }

DocIds == { "doc1", "table_labs" }

DocMetadatas ==
    { NoMetadata,
      { <<"source", "manual">> },
      { <<"table_name", "">> },
      { <<"table_name", "labs">> } }

QueryTexts == { "", "lab" }

QueryCounts == { KMin - 1, KMin, KMax, KMax + 1 }

Requests ==
    { [op |-> "add_table", table_schema |-> s] : s \in RequestSchemas }
    \cup { [op |-> "delete_table", table_name |-> n] : n \in TableNames }
    \cup { [op |-> "reinitialize"] }
    \cup { [op |-> "query", query |-> t, n_results |-> k]
           : t \in QueryTexts, k \in QueryCounts }
    \cup { [op |-> "add_document", id |-> i, document |-> "note", metadata |-> m]
           : i \in DocIds, m \in DocMetadatas }
    \cup { [op |-> "delete_document", id |-> i] : i \in DocIds }
    \cup { [op |-> "reset"] }

Response(r, code, b) == [req |-> r, status |-> code, body |-> b]

\* What the log shows of the last handler: its response, and how many
\* entries it removed from and added to the collection.
Logged(r, code, b, before, after) ==
    [ req |-> r, status |-> code, body |-> b,
      removed |-> Cardinality(before \ after),
      added |-> Cardinality(after \ before) ]

NoResponse == Logged([op |-> "none"], 0, [none |-> TRUE], {}, {})

\* The event loop runs one handler at a time: no handler body awaits.
LoopIdle == pc = "idle"

\* Variant: handlers run on worker threads, so one starts while another runs.
Ready_threaded(r) == r \in waiting \/ waiting = {} \/ ~LoopIdle

\* The loop starts the handler of request r: one that waited, or, when none
\* waits, one that has just arrived.
Ready(r) == LoopIdle /\ (r \in waiting \/ waiting = {})

Answer(r, code, b) ==
    /\ resp' = Logged(r, code, b, coll, coll')
    /\ waiting' = waiting \ {r}

(***************************************************************************)
(* A request reaches the server while a handler runs: it waits for the     *)
(* loop.  A request that reaches an idle loop is served at once; when the  *)
(* running handler ends, the waiting ones are served in any order.         *)
(***************************************************************************)
Arrive(r) ==
    /\ ~LoopIdle
    /\ r \notin waiting
    /\ Cardinality(waiting) < MaxWaiting
    /\ waiting' = waiting \cup {r}
    /\ UNCHANGED <<coll, pc, resp, neMissing>>

(***************************************************************************)
(* POST /registry/table                                                    *)
(***************************************************************************)
add_table(r) ==
    /\ Ready(r)
    /\ r.op = "add_table"
    /\ \E o \in add_table_to_registry(coll, r.table_schema) :
          /\ coll' = o.coll
          /\ IF o.success
             THEN Answer(r, 201, [table_name |-> r.table_schema.table_name])
             ELSE Answer(r, 500, [detail |-> "Failed to add table"])
    /\ UNCHANGED <<pc, neMissing>>

(***************************************************************************)
(* DELETE /registry/table/{table_name}                                     *)
(***************************************************************************)
\* Variant: deletes by the table_name metadata instead of the derived id.
delete_table_by_name(r) ==
    /\ Ready(r)
    /\ r.op = "delete_table"
    /\ coll' = { e \in coll : ~(/\ HasKey(e.metadata, "table_name")
                                /\ ValueOf(e.metadata, "table_name") = r.table_name) }
    /\ Answer(r, 200, [table_name |-> r.table_name])
    /\ UNCHANGED <<pc, neMissing>>

\* Variant: answers not-found when the table has no entry.
delete_table_strict(r) ==
    /\ Ready(r)
    /\ r.op = "delete_table"
    /\ coll' = CollectionDeleteIds(coll, {TableId(r.table_name)})
    /\ IF TableId(r.table_name) \in Ids(coll)
       THEN Answer(r, 200, [table_name |-> r.table_name])
       ELSE Answer(r, 404, [table_name |-> r.table_name])
    /\ UNCHANGED <<pc, neMissing>>

delete_table(r) ==
    /\ Ready(r)
    /\ r.op = "delete_table"
    /\ coll' = CollectionDeleteIds(coll, {TableId(r.table_name)})
    /\ Answer(r, 200, [table_name |-> r.table_name])
    /\ UNCHANGED <<pc, neMissing>>

(***************************************************************************)
(* POST /registry/reinitialize: the clear step, then initialize and the    *)
(* response.                                                               *)
(***************************************************************************)
reinitialize_clear(r) ==
    /\ Ready(r)
    /\ r.op = "reinitialize"
    /\ coll' = CollectionDeleteWhere(coll, neMissing)
    /\ pc' = "cleared"
    /\ UNCHANGED <<waiting, resp, neMissing>>

reinitialize_finish ==
    /\ pc = "cleared"
    /\ \E o \in initialize_registry(coll) :
          /\ coll' = o.coll
          /\ Answer([op |-> "reinitialize"], 200,
                    [ initialized |-> o.success,
                      table_count |-> CollectionCount(o.coll) ])
    /\ pc' = "idle"
    /\ UNCHANGED neMissing

(***************************************************************************)
(* POST /query.  QueryRequest bounds n_results before the handler runs;    *)
(* QueryResult requires each result's metadata to be a mapping.            *)
(***************************************************************************)
QueryRequestValid(r) == r.n_results >= KMin /\ r.n_results <= KMax

QueryResult(e, q) ==
    [ document |-> e.document,
      metadata |-> e.metadata,
      distance |-> Distance(e.embedding, q) ]

QueryResultValid(x) == x.metadata # NoMetadata

QueryResults(ranked, q) == [ i \in 1..Len(ranked) |-> QueryResult(ranked[i], q) ]

query_registry(r) ==
    /\ Ready(r)
    /\ r.op = "query"
    /\ UNCHANGED <<coll, pc, neMissing>>
    /\ IF ~QueryRequestValid(r)
       THEN Answer(r, 422, [results |-> <<>>, embedded |-> FALSE, queried |-> FALSE])
       ELSE \E ranked \in CollectionQuery(coll, encode(r.query), r.n_results) :
               LET results == QueryResults(ranked, encode(r.query))
               IN  IF \A i \in 1..Len(results) : QueryResultValid(results[i])
                   THEN Answer(r, 200, [results |-> results,
                                        embedded |-> TRUE, queried |-> TRUE])
                   ELSE Answer(r, 500, [results |-> <<>>,
                                        embedded |-> TRUE, queried |-> TRUE])

(***************************************************************************)
(* POST /documents/add                                                     *)
(***************************************************************************)
DocumentEntry(r) ==
    [ id |-> r.id,
      document |-> r.document,
      metadata |-> r.metadata,
      embedding |-> encode(r.document),
      origin |-> "document" ]

\* The store either ignores an add of an id it holds or rejects it.
AddStatuses(c, id) == IF id \in Ids(c) THEN {201, 500} ELSE {201}

add_document(r) ==
    /\ Ready(r)
    /\ r.op = "add_document"
    /\ coll' = CollectionAdd(coll, DocumentEntry(r))
    /\ \E code \in AddStatuses(coll, r.id) : Answer(r, code, [id |-> r.id])
    /\ UNCHANGED <<pc, neMissing>>

(***************************************************************************)
(* GET /documents/{doc_id}: the response for doc_id against collection c.  *)
(***************************************************************************)
get_document(c, doc_id) ==
    IF CollectionGet(c, {doc_id}) = {}
    THEN Response([op |-> "get_document", id |-> doc_id], 404, [id |-> doc_id])
    ELSE Response([op |-> "get_document", id |-> doc_id], 200,
                  LET e == CHOOSE x \in CollectionGet(c, {doc_id}) : TRUE
                  IN  [id |-> doc_id, document |-> e.document, metadata |-> e.metadata])

(***************************************************************************)
(* DELETE /documents/{doc_id}                                              *)
(***************************************************************************)
delete_document(r) ==
    /\ Ready(r)
    /\ r.op = "delete_document"
    /\ coll' = CollectionDeleteIds(coll, {r.id})
    /\ Answer(r, 200, [id |-> r.id])
    /\ UNCHANGED <<pc, neMissing>>

(***************************************************************************)
(* POST /admin/reset                                                       *)
(***************************************************************************)
\* Variant: documents_deleted is read from count() after the delete.
reset_collection_count_after(r) ==
    /\ Ready(r)
    /\ r.op = "reset"
    /\ coll' = CollectionDeleteIds(coll, Ids(coll))
    /\ Answer(r, 200, [documents_deleted |-> CollectionCount(coll')])
    /\ UNCHANGED <<pc, neMissing>>

\* all_data = get(); the ids are deleted when there are any; the response
\* counts the ids that get() returned.
reset_collection(r) ==
    /\ Ready(r)
    /\ r.op = "reset"
    /\ coll' = IF Ids(coll) # {}
               THEN CollectionDeleteIds(coll, Ids(coll))
               ELSE coll
    /\ Answer(r, 200, [documents_deleted |->
                         IF Ids(coll) # {} THEN Cardinality(Ids(coll)) ELSE 0])
    /\ UNCHANGED <<pc, neMissing>>

(***************************************************************************)
(* The service: started on an empty persist directory, the lifespan hook   *)
(* has run initialize_registry once.                                       *)
(***************************************************************************)
Init ==
    /\ coll \in { o.coll : o \in initialize_registry({}) }
    /\ waiting = {}
    /\ pc = "idle"
    /\ resp = NoResponse
    /\ neMissing \in BOOLEAN

Next ==
    \/ \E r \in Requests : Arrive(r)
    \/ \E r \in Requests : add_table(r)
    \/ \E r \in Requests : delete_table(r)
    \/ \E r \in Requests : reinitialize_clear(r)
    \/ reinitialize_finish
    \/ \E r \in Requests : query_registry(r)
    \/ \E r \in Requests : add_document(r)
    \/ \E r \in Requests : delete_document(r)
    \/ \E r \in Requests : reset_collection(r)

Spec == Init /\ [][Next]_vars

(***************************************************************************)
(* Properties.                                                             *)
(***************************************************************************)
CanonicalNames == { s.table_name : s \in CanonicalSchemas }

NonCanonical(schema) ==
    schema.table_name # "" /\ schema.table_name \notin CanonicalNames

\* The last handler to finish is `op`, and no handler has started since.
LastFinished(op) == pc = "idle" /\ resp.req.op = op

Min(a, b) == IF a <= b THEN a ELSE b

\* C1: once reinitialize has completed (its initialize succeeded), no
\* document added through add_document is in the collection, whatever its id
\* and metadata; stated for the store whose $ne filter is the widest, the one
\* that also matches entries lacking the key.
C1_ReinitializeRemovesCustomDocuments ==
    ( /\ LastFinished("reinitialize")
      /\ resp.body.initialized
      /\ neMissing )
    => \A e \in coll : e.origin # "document"

\* C2: add_table of a non-canonical schema followed directly by a
\* reinitialize whose initialize succeeded: when reinitialize answers,
\* get("table_" + name) is not-found and the collection is exactly the
\* canonical entries; stated for the store whose $ne filter also matches
\* entries lacking the key.
C2_ReinitializeAfterAddLeavesCanonicalOnly ==
    [][ ( /\ reinitialize_finish
          /\ resp'.body.initialized
          /\ neMissing
          /\ resp.req.op = "add_table"
          /\ resp.status = 201
          /\ NonCanonical(resp.req.table_schema) )
        => /\ get_document(coll', "table_" \o resp.req.table_schema.table_name).status
                = 404
           /\ coll' = CanonicalEntries ]_vars

\* C3: remove_table(n) removes the entry whose id is exactly "table_" + n and
\* leaves every other entry, registry-origin or custom, as it was.
C3_RemoveTableDeletesExactlyDerivedId ==
    [][ \A r \in Requests :
          (r.op = "delete_table" /\ delete_table(r))
          => coll' = { e \in coll : e.id # "table_" \o r.table_name } ]_vars

C3_Witness ==
    /\ LastFinished("delete_table")
    /\ resp.removed = 1
    /\ "table_" \o resp.req.table_name \notin Ids(coll)
    /\ \E e \in coll : /\ e.origin = "document"
                       /\ HasKey(e.metadata, "table_name")
                       /\ ValueOf(e.metadata, "table_name") = resp.req.table_name
    /\ \E e \in coll : e.origin = "registry"

\* C4: remove_table(n) for a name with no entry answers success and leaves
\* the collection as it was.
C4_RemoveMissingTableIsSuccessfulNoOp ==
    [][ \A r \in Requests :
          ( /\ r.op = "delete_table"
            /\ "table_" \o r.table_name \notin Ids(coll)
            /\ delete_table(r) )
          => /\ resp'.req = r
             /\ resp'.status = 200
             /\ coll' = coll
             /\ CollectionCount(coll') = CollectionCount(coll) ]_vars

C4_Witness ==
    /\ LastFinished("delete_table")
    /\ resp.status = 200
    /\ resp.removed = 0
    /\ "table_" \o resp.req.table_name \notin Ids(coll)
    /\ coll # {}

\* C5: add_table(s) directly after a successful add_table(s) leaves exactly
\* one entry with the id derived from s's name, and the same count().
C5_AddTableTwiceIsIdempotent ==
    [][ \A r \in Requests :
          ( /\ r.op = "add_table"
            /\ LastFinished("add_table")
            /\ resp.req = r
            /\ resp.status = 201
            /\ add_table(r) )
          => /\ Cardinality({ e \in coll' :
                               e.id = "table_" \o r.table_schema.table_name }) = 1
             /\ CollectionCount(coll') = CollectionCount(coll) ]_vars

C5_Witness ==
    /\ LastFinished("add_table")
    /\ resp.status = 201
    /\ resp.added = 0
    /\ resp.removed = 0
    /\ Cardinality({ e \in coll :
                      e.id = "table_" \o resp.req.table_schema.table_name }) = 1

\* C6: a query with a text and k in [1, 20] against m entries answers with
\* exactly min(k, m) results in non-decreasing distance, the triples the
\* store ranked, unchanged.
C6_QueryReturnsMinKMRankedResults ==
    ( /\ LastFinished("query")
      /\ QueryRequestValid(resp.req)
      /\ resp.req.query # "" )
    => /\ resp.status = 200
       /\ Len(resp.body.results) = Min(resp.req.n_results, CollectionCount(coll))
       /\ \A i \in 1..(Len(resp.body.results) - 1) :
             resp.body.results[i].distance <= resp.body.results[i + 1].distance
       /\ \E ranked \in CollectionQuery(coll, encode(resp.req.query),
                                        resp.req.n_results) :
             resp.body.results = QueryResults(ranked, encode(resp.req.query))

\* C7: a query with an empty text or k outside [1, 20] is answered with an
\* invalid-query error, with no embedding computed and no store query made.
C7_InvalidQueryRejectedBeforeWork ==
    ( /\ resp.req.op = "query"
      /\ (resp.req.query = "" \/ ~QueryRequestValid(resp.req)) )
    => /\ resp.status \in {400, 422}
       /\ ~resp.body.embedded
       /\ ~resp.body.queried

\* C8 (as claimed): while reinitialize is past its clear step and has not
\* answered, a waiting add_table of a non-canonical schema can land.
C8_AddCanLandDuringReinitialize ==
    \A r \in waiting :
        ( /\ pc # "idle"
          /\ r.op = "add_table"
          /\ NonCanonical(r.table_schema) )
        => ENABLED add_table(r)

\* C8 (amended): no add_table lands between reinitialize's clear step and
\* its response; the add runs wholly before reinitialize or wholly after it.
C8_AddNeverLandsDuringReinitialize ==
    [][ pc # "idle" => \A r \in Requests : ~(r.op = "add_table" /\ add_table(r)) ]_vars

\* add_table(labs) succeeded, reinitialize then cleared its entry, and another
\* add_table of a non-canonical schema waits while reinitialize runs.
C8_Witness ==
    /\ pc = "cleared"
    /\ resp.req.op = "add_table"
    /\ resp.status = 201
    /\ NonCanonical(resp.req.table_schema)
    /\ "table_" \o resp.req.table_schema.table_name \notin Ids(coll)
    /\ \E r \in waiting : r.op = "add_table" /\ NonCanonical(r.table_schema)

\* C9: when the initialize step of reinitialize reports failure,
\* reinitialize answers its caller with a failure.
C9_InitializeFailureSurfaced ==
    ( /\ resp.req.op = "reinitialize"
      /\ ~resp.body.initialized )
    => resp.status >= 400

\* C10 (as claimed): no two entries carry the same table_name.
C10_OneEntryPerTableName ==
    \A e1, e2 \in coll :
        ( /\ HasKey(e1.metadata, "table_name")
          /\ HasKey(e2.metadata, "table_name")
          /\ ValueOf(e1.metadata, "table_name") = ValueOf(e2.metadata, "table_name") )
        => e1 = e2

\* C10 (amended): no two entries share an id, so each name n has at most one
\* entry with id "table_" + n.
C10_OneEntryPerId ==
    \A e1, e2 \in coll : e1.id = e2.id => e1 = e2

\* A registry entry and a custom document carry the same table_name.
C10_Witness ==
    \E e1, e2 \in coll :
        /\ e1.origin = "registry"
        /\ e2.origin = "document"
        /\ HasKey(e2.metadata, "table_name")
        /\ ValueOf(e1.metadata, "table_name") = ValueOf(e2.metadata, "table_name")

\* C11: a reset leaves the collection empty whatever it held, answers
\* success, and reports as documents_deleted the number of entries the
\* collection held when the reset started (0 for an empty collection).
C11_ResetEmptiesAndCountsEntries ==
    [][ \A r \in Requests :
          (r.op = "reset" /\ reset_collection(r))
          => /\ coll' = {}
             /\ CollectionCount(coll') = 0
             /\ resp'.req = r
             /\ resp'.status = 200
             /\ resp'.body.documents_deleted = CollectionCount(coll) ]_vars

\* A reset has just emptied a collection of several entries, registry and
\* custom, and reported their number.
C11_Witness ==
    /\ LastFinished("reset")
    /\ resp.status = 200
    /\ coll = {}
    /\ resp.removed >= 2
    /\ resp.body.documents_deleted = resp.removed

\* A reset of an already empty collection has answered success with 0.
C11_WitnessEmpty ==
    /\ LastFinished("reset")
    /\ resp.status = 200
    /\ coll = {}
    /\ resp.removed = 0
    /\ resp.body.documents_deleted = 0

====
